---- MODULE Spec2Model ----
(***************************************************************************)
(* Verification model of the BOLT-RAG-PIPELINE repository:                 *)
(*   vector_store.py  - loading, chunking, collection synchronization and  *)
(*                      the unified search across collections              *)
(*   ocr_utils.py     - compute_hash, get_existing_hashes                  *)
(*   rag_pipeline.py  - the three-stage answer graph and ask_question      *)
(*   app.py           - the handlers that call them                        *)
(*                                                                         *)
(* External collaborators (PDF parser, text splitter, SHA-256, embedding   *)
(* distance, Chroma, the LLM) are modelled by what the code relies on:     *)
(* a PDF is a sequence of pages, a page text is the sequence of passages   *)
(* the splitter cuts it into, a hash is an injective tag of the text, a    *)
(* query is the distance it induces on every passage, and each external    *)
(* call may raise.                                                         *)
(***************************************************************************)
EXTENDS Integers, Sequences, FiniteSets, TLC

VARIABLES
    docs_dir,     \* the source directory: the files os.walk lists, in listing order
    collections,  \* client.list_collections(): names of the existing collections, in order
    store,        \* store[c]: the chunks held by collection c, in insertion order
    last,         \* history: what the last operation was given, did and returned
    app,          \* MISTRAL_API_KEY and the Streamlit session state the Ask tab reads
    run           \* the answer invocation under way or just finished

vars == <<docs_dir, collections, store, last, app, run>>

-----------------------------------------------------------------------------
(* Bounds of the model *)

MaxFiles == 2      \* files in the source directory
MaxStore == 3      \* chunks the store may hold, all collections together
MaxK == 2          \* result counts 1..MaxK asked of unified_search

Texts == {1, 2, 3}                     \* passage texts
Scores == {0, 1, 2}                    \* distances: every weak order of three texts
CollectionNames == {"colA", "colB"}    \* sanitized collection names

-----------------------------------------------------------------------------
(* Source files.  pages[i] is the sequence of passages page i splits into  *)
(* (<<>> is an empty or whitespace-only page); a .txt file has one "page", *)
(* its whole text.  failAt = k > 0: reading the file raises when it gets   *)
(* to page k (k = 1: already on opening it); failAt = 0: it reads fine.    *)

File(n, k, p, f) == [name |-> n, kind |-> k, pages |-> p, failAt |-> f]

\* The files a source directory is made of, in the order the file system lists them
\* (os.walk yields scandir order, which is not sorted)
Catalogue ==
    << File("c.pdf",  "pdf",   << <<2>>, <<3>> >>,   2),
       File("a.txt",  "txt",   << <<1>> >>,          0),
       File("e.txt",  "txt",   << <<2>> >>,          1),
       File("b.pdf",  "pdf",   << <<>>, <<1>> >>,    0) >>

Range(s) == { s[i] : i \in 1..Len(s) }

\* ocr_utils.compute_hash: SHA-256 of the text, hex encoded (injective on texts)
compute_hash(t) == <<"sha256", t>>

\* vector_store.py 52-68: the documents one file yields, and whether loading raised
\* out of load_documents_from_directory
PdfDocs(f, upto) ==
    LET Pg(i) == [source |-> f.name, page |-> i - 1, text |-> f.pages[i]]
        idx == SelectSeq([i \in 1..upto |-> i], LAMBDA i : f.pages[i] # <<>>)
    IN  [j \in 1..Len(idx) |-> Pg(idx[j])]

LoadFile(f) ==
    CASE f.kind = "pdf" ->
            \* the try block: pages appended before the exception stay in docs
            [docs   |-> PdfDocs(f, IF f.failAt = 0 THEN Len(f.pages) ELSE f.failAt - 1),
             raised |-> FALSE]
      [] f.kind = "txt" ->
            \* TextLoader(file_path).load() is outside any try
            IF f.failAt > 0
            THEN [docs |-> <<>>, raised |-> TRUE]
            ELSE [docs |-> << [source |-> f.name, page |-> -1, text |-> f.pages[1]] >>,
                  raised |-> FALSE]
      [] OTHER -> [docs |-> <<>>, raised |-> FALSE]

RECURSIVE load_documents_from_directory(_)
load_documents_from_directory(files) ==
    IF files = <<>> THEN [docs |-> <<>>, raised |-> FALSE]
    ELSE LET h == LoadFile(Head(files))
         IN  IF h.raised THEN [docs |-> <<>>, raised |-> TRUE]
             ELSE LET r == load_documents_from_directory(Tail(files))
                  IN  [docs |-> h.docs \o r.docs, raised |-> r.raised]

\* vector_store.py 87-98: split every document and tag each chunk
Chunk(d, t) == [text |-> t, source |-> d.source, page |-> d.page,
                content_hash |-> compute_hash(t), section |-> "all_sections"]

RECURSIVE split_and_prepare_documents(_)
split_and_prepare_documents(docs) ==
    IF docs = <<>> THEN <<>>
    ELSE LET d == Head(docs)
         IN  [i \in 1..Len(d.text) |-> Chunk(d, d.text[i])]
               \o split_and_prepare_documents(Tail(docs))

\* Mutant: the lookup that always comes back empty
get_existing_hashes_empty(chunks, hashFails) == {}

\* Mutant: the lookup that answers although reading the collection raised
get_existing_hashes_retried(chunks, hashFails) ==
    { chunks[i].content_hash : i \in 1..Len(chunks) }

\* ocr_utils.get_existing_hashes: the content hashes stored in a collection;
\* the empty set when reading the collection raises
get_existing_hashes(chunks, hashFails) ==
    IF hashFails THEN {}
    ELSE { chunks[i].content_hash : i \in 1..Len(chunks) }

\* Mutant: the filter that lets every chunk through
unique_chunks_unfiltered(split_docs, existing_hashes) == split_docs

\* Mutant: the filter with its test inverted
unique_chunks_inverted(split_docs, existing_hashes) ==
    SelectSeq(split_docs, LAMBDA ch : compute_hash(ch.text) \in existing_hashes)

\* vector_store.py 172-180: keep the chunks whose hash is not in existing_hashes
unique_chunks(split_docs, existing_hashes) ==
    SelectSeq(split_docs, LAMBDA ch : compute_hash(ch.text) \notin existing_hashes)

Hashes(chunks) == { chunks[i].content_hash : i \in 1..Len(chunks) }

NoOp == [op |-> "none"]

-----------------------------------------------------------------------------
(* The source directory changes outside the program *)

Names(files) == { files[i].name : i \in 1..Len(files) }

\* The directory holding exactly the files named, as the file system lists it
Listing(names) == SelectSeq(Catalogue, LAMBDA f : f.name \in names)

\* How the directory stands to the one the last operation left: "same" right after a
\* completed synchronization of c, a file name when exactly that file was added
\* since, "other" otherwise
Since(c) ==
    CASE last.op = "sync" /\ last.coll = c /\ ~last.raised -> "same"
      [] last.op = "added" /\ last.coll = c -> last.file
      [] OTHER -> "other"

AddFile ==
    /\ Len(docs_dir) < MaxFiles
    /\ \E f \in Range(Catalogue) \ Range(docs_dir) :
          /\ docs_dir' = Listing(Names(docs_dir) \cup {f.name})
          /\ last' = IF last.op = "sync" /\ ~last.raised
                     THEN [op |-> "added", coll |-> last.coll, file |-> f.name]
                     ELSE NoOp
    /\ UNCHANGED <<collections, store, app, run>>

RemoveFile ==
    /\ \E f \in Range(docs_dir) : docs_dir' = Listing(Names(docs_dir) \ {f.name})
    /\ last' = NoOp
    /\ UNCHANGED <<collections, store, app, run>>

-----------------------------------------------------------------------------
(* initialize_or_update_vector_store(persist_dir, docs_path, collection_name) *)

\* connect_to_chroma: the listed collections, [] when connecting or listing raises
connect_to_chroma(listFails) == IF listFails THEN <<>> ELSE collections

\* vector_store.py 220-225
collection_exists(c, listFails) == c \in Range(connect_to_chroma(listFails))

Contents(c) == IF c \in Range(collections) THEN store[c] ELSE <<>>

RECURSIVE SumLen(_, _)
SumLen(f, S) == IF S = {} THEN 0
                ELSE LET x == CHOOSE y \in S : TRUE IN Len(f[x]) + SumLen(f, S \ {x})

\* The model's store holds at most MaxStore chunks
Fits(batch) == SumLen(store, CollectionNames) + Len(batch) <= MaxStore

\* The record of one synchronization kept in `last`: the call, the path it took,
\* whether it raised, how many chunks it appended to the collection, whether
\* listing the collections and reading the existing hashes failed
SyncRec(c, path, raised, added, fl) ==
    [op |-> "sync", coll |-> c, path |-> path, raised |-> raised, added |-> Len(added),
     listFails |-> fl.listFails, hashFails |-> fl.hashFails,
     case |-> IF Since(c) \in {"same", "other"} THEN Since(c) ELSE "added"]

\* update_vectorstore (vector_store.py 136-190)
update_vectorstore(c, fl) ==
    LET existing_hashes == get_existing_hashes(store[c], fl.hashFails)
        raw == load_documents_from_directory(docs_dir)
        split_docs == split_and_prepare_documents(raw.docs)
        uniq == unique_chunks(split_docs, existing_hashes)
    IN  IF raw.raised
        THEN /\ last' = SyncRec(c, "update", TRUE, <<>>, fl)
             /\ UNCHANGED <<collections, store>>
        ELSE IF raw.docs = <<>>
        THEN /\ last' = SyncRec(c, "update", FALSE, <<>>, fl)
             /\ UNCHANGED <<collections, store>>
        ELSE IF uniq # <<>> /\ fl.writeFails
        THEN \* chroma_store.add_documents raises
             /\ last' = SyncRec(c, "update", TRUE, <<>>, fl)
             /\ UNCHANGED <<collections, store>>
        ELSE /\ Fits(uniq)
             /\ store' = [store EXCEPT ![c] = store[c] \o uniq]
             /\ last' = SyncRec(c, "update", FALSE, uniq, fl)
             /\ UNCHANGED collections

\* Mutant: the creation path writes the collection anew
create_new_vector_store_replace(c, fl) ==
    LET raw == load_documents_from_directory(docs_dir)
        all_splits == split_and_prepare_documents(raw.docs)
        created == IF c \in Range(collections) THEN collections ELSE Append(collections, c)
    IN  IF raw.raised
        THEN /\ last' = SyncRec(c, "create", TRUE, <<>>, fl)
             /\ UNCHANGED <<collections, store>>
        ELSE IF fl.writeFails
        THEN /\ collections' = created
             /\ last' = SyncRec(c, "create", TRUE, <<>>, fl)
             /\ UNCHANGED store
        ELSE /\ Len(all_splits) <= MaxStore
             /\ collections' = created
             /\ store' = [store EXCEPT ![c] = all_splits]
             /\ last' = SyncRec(c, "create", FALSE, all_splits, fl)

\* create_new_vector_store (vector_store.py 100-134): Chroma.from_documents gets or
\* creates the collection, then adds every chunk of all_splits
create_new_vector_store(c, fl) ==
    LET raw == load_documents_from_directory(docs_dir)
        all_splits == split_and_prepare_documents(raw.docs)
        created == IF c \in Range(collections) THEN collections ELSE Append(collections, c)
    IN  IF raw.raised
        THEN /\ last' = SyncRec(c, "create", TRUE, <<>>, fl)
             /\ UNCHANGED <<collections, store>>
        ELSE IF fl.writeFails
        THEN \* the collection is there, the batch is not
             /\ collections' = created
             /\ last' = SyncRec(c, "create", TRUE, <<>>, fl)
             /\ UNCHANGED store
        ELSE /\ Fits(all_splits)
             /\ collections' = created
             /\ store' = [store EXCEPT ![c] = Contents(c) \o all_splits]
             /\ last' = SyncRec(c, "create", FALSE, all_splits, fl)

Faults == [listFails : BOOLEAN, hashFails : BOOLEAN, writeFails : BOOLEAN]

initialize_or_update_vector_store ==
    \E c \in CollectionNames, fl \in Faults :
        \* a fault is drawn only for a call that is made
        /\ fl.hashFails => collection_exists(c, fl.listFails)
        /\ IF collection_exists(c, fl.listFails)
           THEN update_vectorstore(c, fl)
           ELSE create_new_vector_store(c, fl)
        /\ UNCHANGED <<docs_dir, app, run>>

-----------------------------------------------------------------------------
(* unified_search(client, persist_dir, embeddings, query, k)               *)
(* A query is the distance it induces on every passage text (lower is      *)
(* closer); a hit is the (doc, score) pair of the code, tagged with the    *)
(* collection and position it was read from.                               *)

Queries == [Texts -> Scores]

Hit(c, i, q) == [doc |-> store[c][i], score |-> q[store[c][i].text], coll |-> c, pos |-> i]

\* list.sort(key=...): a stable sort, ascending by score
RECURSIVE InsertByScore(_, _)
InsertByScore(sorted, h) ==
    IF sorted = <<>> THEN <<h>>
    ELSE IF h.score < Head(sorted).score THEN <<h>> \o sorted
    ELSE <<Head(sorted)>> \o InsertByScore(Tail(sorted), h)

RECURSIVE SortByScore(_)
SortByScore(hits) ==
    IF hits = <<>> THEN <<>>
    ELSE InsertByScore(SortByScore(SubSeq(hits, 1, Len(hits) - 1)), hits[Len(hits)])

Min(a, b) == IF a <= b THEN a ELSE b

\* chroma_store.similarity_search_with_score(query, k): the k nearest chunks of one
\* collection, nearest first
similarity_search_with_score(c, q, k) ==
    LET ranked == SortByScore([i \in 1..Len(store[c]) |-> Hit(c, i, q)])
    IN  SubSeq(ranked, 1, Min(k, Len(ranked)))

\* Mutant: the except branch leaves the loop
AfterQueryError_break(c, rest) == [all_results |-> <<>>, queried |-> <<c>>, raised |-> FALSE]

\* vector_store.py 295-297: log and go on with the next collection
AfterQueryError(c, rest) ==
    [all_results |-> rest.all_results, queried |-> <<c>> \o rest.queried,
     raised |-> rest.raised]

\* vector_store.py 272-297: the loop over the collections; failing are the
\* collections whose query raises
RECURSIVE SearchLoop(_, _, _, _)
SearchLoop(cols, q, k, failing) ==
    IF cols = <<>> THEN [all_results |-> <<>>, queried |-> <<>>, raised |-> FALSE]
    ELSE LET c == Head(cols)
             rest == SearchLoop(Tail(cols), q, k, failing)
         IN  IF c \in failing
             THEN AfterQueryError(c, rest)
             ELSE [all_results |-> similarity_search_with_score(c, q, k) \o rest.all_results,
                   queried |-> <<c>> \o rest.queried,
                   raised |-> rest.raised]

\* Mutant: truncate, then sort
TopResults_cut_first(all_results, k) ==
    SortByScore(SubSeq(all_results, 1, Min(k, Len(all_results))))

\* Mutant: sort with the nearest last
TopResults_descending(all_results, k) ==
    LET sorted == SortByScore(all_results)
        rev == [i \in 1..Len(sorted) |-> sorted[Len(sorted) + 1 - i]]
    IN  SubSeq(rev, 1, Min(k, Len(rev)))

\* vector_store.py 299-303: sort all results by score, take the first k
TopResults(all_results, k) ==
    LET sorted == SortByScore(all_results)
    IN  SubSeq(sorted, 1, Min(k, Len(sorted)))

\* vector_store.py 306: the documents of the hits
retrieved_docs(hits) == [i \in 1..Len(hits) |-> hits[i].doc]

unified_search ==
    \E q \in Queries, k \in 1..MaxK, failing \in SUBSET Range(collections),
       listFails \in BOOLEAN :
        /\ listFails => failing = {}
        /\ last' = IF listFails
                   THEN \* client.list_collections() is outside the try
                        [op |-> "search", query |-> q, k |-> k, failing |-> failing,
                         raised |-> TRUE, hits |-> <<>>, queried |-> <<>>]
                   ELSE LET loop == SearchLoop(collections, q, k, failing)
                        IN  [op |-> "search", query |-> q, k |-> k, failing |-> failing,
                             raised |-> loop.raised,
                             hits |-> TopResults(loop.all_results, k),
                             queried |-> loop.queried]
        /\ UNCHANGED <<docs_dir, collections, store, app, run>>

-----------------------------------------------------------------------------

-----------------------------------------------------------------------------
(* load_documents_from_directory(docs_path), called on its own *)

LoadDocuments ==
    /\ last = NoOp
    /\ LET r == load_documents_from_directory(docs_dir)
       IN  last' = [op |-> "load", raised |-> r.raised, docs |-> r.docs]
    /\ UNCHANGED <<docs_dir, collections, store, app, run>>

-----------------------------------------------------------------------------
(* The answer pipeline (rag_pipeline.py) and the Ask Questions tab (app.py) *)

PipelineK == 4     \* retrieve asks unified_search for k=4

\* One answer invocation: who was called (entry), where it stands (pc), the stages
\* run so far, what each produced and consumed, how it ended
Invocation(entry) ==
    [entry |-> entry, pc |-> "analyze_query", stages |-> <<>>,
     query |-> "none", searched |-> "none", context |-> <<>>, prompted |-> <<>>,
     outcome |-> "running", failed |-> "none", value |-> "none"]

\* An exception leaves the graph: no later node runs, the caller gets the exception
Raise(r, stage) ==
    [r EXCEPT !.pc = "done", !.stages = Append(@, stage), !.outcome = "raised",
              !.failed = stage]

Free == run.pc \in {"idle", "done", "refused"}

\* app.py 92-97: Save API Keys (the key typed may be empty)
SaveApiKeys ==
    /\ Free
    /\ \E typed \in BOOLEAN : app' = [app EXCEPT !.key = typed, !.api_keys_set = TRUE]
    /\ UNCHANGED <<docs_dir, collections, store, last, run>>

\* app.py 111-130 with setup_rag_pipeline (rag_pipeline.py 35-98): the graph is built
\* when setup_llm finds the key and hub.pull answers
InitializeSystem ==
    /\ Free
    /\ \E pullFails \in BOOLEAN :
          app' = IF app.api_keys_set /\ app.key /\ ~pullFails
                 THEN [app EXCEPT !.rag_pipeline = TRUE]
                 ELSE app
    /\ UNCHANGED <<docs_dir, collections, store, last, run>>

\* graph.invoke({"question": ...}) on the graph setup_rag_pipeline compiled:
\* START -> analyze_query
GraphInvoke ==
    /\ Free
    /\ app.rag_pipeline
    /\ run' = Invocation("graph")
    /\ UNCHANGED <<docs_dir, collections, store, last, app>>

\* rag_pipeline.py 57-61: the LLM turns the question into a structured query
analyze_query ==
    /\ run.pc = "analyze_query"
    /\ \/ run' = Raise(run, "analyze_query")
       \/ \E q \in Queries :
             run' = [run EXCEPT !.pc = "retrieve",
                                !.stages = Append(@, "analyze_query"),
                                !.query = [query |-> q, section |-> "all_sections"]]
    /\ UNCHANGED <<docs_dir, collections, store, last, app>>

\* rag_pipeline.py 63-74: unified_search on state["query"] with k=4
retrieve ==
    /\ run.pc = "retrieve"
    /\ \/ run' = Raise([run EXCEPT !.searched = run.query.query], "retrieve")
       \/ \E failing \in SUBSET Range(collections) :
             LET loop == SearchLoop(collections, run.query.query, PipelineK, failing)
             IN  run' = [run EXCEPT
                           !.pc = "generate",
                           !.stages = Append(@, "retrieve"),
                           !.searched = run.query.query,
                           !.context = retrieved_docs(TopResults(loop.all_results, PipelineK))]
    /\ UNCHANGED <<docs_dir, collections, store, last, app>>

\* rag_pipeline.py 76-82: the prompt is filled from state["context"], the LLM answers
generate ==
    /\ run.pc = "generate"
    /\ \/ run' = Raise([run EXCEPT !.prompted = run.context], "generate")
       \/ run' = [run EXCEPT !.pc = "done",
                             !.stages = Append(@, "generate"),
                             !.prompted = run.context,
                             !.outcome = "returned",
                             !.value = "answer"]
    /\ UNCHANGED <<docs_dir, collections, store, last, app>>

\* rag_pipeline.py 100-125: ask_question calls the LLM directly and turns every
\* exception into the string it returns
ask_question(llmFails) ==
    LET r == [Invocation("ask_question") EXCEPT !.pc = "done", !.outcome = "returned"]
    IN  IF ~app.key
        THEN [r EXCEPT !.value = "notice"]
        ELSE IF llmFails
        THEN [r EXCEPT !.value = "error_text", !.failed = "llm_invoke"]
        ELSE [r EXCEPT !.value = "answer"]

\* app.py 240-263: Submit Question
SubmitQuestion ==
    /\ Free
    /\ IF ~(app.rag_pipeline /\ app.has_uploaded)
       THEN run' = [pc |-> "refused", shown |-> "warning"]
       ELSE IF ~app.api_keys_set
       THEN run' = [pc |-> "refused", shown |-> "error"]
       ELSE \E llmFails \in BOOLEAN : run' = ask_question(llmFails)
    /\ UNCHANGED <<docs_dir, collections, store, last, app>>

-----------------------------------------------------------------------------

\* app.py 60-74: the session state of a fresh session
NoSession == [key |-> FALSE, api_keys_set |-> FALSE, rag_pipeline |-> FALSE,
              has_uploaded |-> FALSE]

Idle == [pc |-> "idle"]

Init ==
    /\ docs_dir = <<>>
    /\ collections = <<>>
    /\ store = [c \in CollectionNames |-> <<>>]
    /\ last = NoOp
    /\ app = NoSession
    /\ run = Idle

Next ==
    \/ AddFile
    \/ RemoveFile
    \/ initialize_or_update_vector_store

Spec == Init /\ [][Next]_vars

\* unified_search on every store that holds at most MaxStore chunks in two collections
SearchPool == { Chunk([source |-> "a.txt", page |-> -1], t) : t \in Texts }

BoundedSeqs(S, n) == UNION { [1..m -> S] : m \in 0..n }

InitSearch ==
    /\ docs_dir = <<>>
    /\ collections = <<"colA", "colB">>
    /\ store \in { st \in [CollectionNames -> BoundedSeqs(SearchPool, MaxStore)] :
                      SumLen(st, CollectionNames) <= MaxStore }
    /\ last = NoOp
    /\ app = NoSession
    /\ run = Idle

\* A search changes nothing it reads: a second one would start from the same store
NextSearch == last = NoOp /\ unified_search

SpecSearch == InitSearch /\ [][NextSearch]_vars

\* load_documents_from_directory on every directory made of the files of the
\* catalogue, a file of another type and a file in a subdirectory, in every
\* listing order
OtherFile == File("f.md", "other", << <<1>> >>, 0)

RECURSIVE Arrangements(_)
Arrangements(S) ==
    {<<>>} \cup UNION { { <<f>> \o rest : rest \in Arrangements(S \ {f}) } : f \in S }

\* A file in a subdirectory of docs_path: os.walk descends into it after it has
\* yielded the files of docs_path itself
NestedFile == File("sub/d.txt", "txt", << <<3>> >>, 0)

InSubdir(f) == f.name = NestedFile.name

WalkOrder(files) ==
    \A i, j \in 1..Len(files) : (InSubdir(files[i]) /\ ~InSubdir(files[j])) => j < i

InitLoad ==
    /\ docs_dir \in { files \in Arrangements(Range(Catalogue) \cup {OtherFile, NestedFile}) :
                          WalkOrder(files) }
    /\ collections = <<>>
    /\ store = [c \in CollectionNames |-> <<>>]
    /\ last = NoOp
    /\ app = NoSession
    /\ run = Idle

NextLoad == LoadDocuments

SpecLoad == InitLoad /\ [][NextLoad]_vars

\* The answer pipeline over a store two uploads have filled
AnswerStore ==
    [c \in CollectionNames |->
        IF c = "colA"
        THEN << Chunk([source |-> "a.txt", page |-> -1], 1),
                Chunk([source |-> "a.txt", page |-> -1], 2) >>
        ELSE << Chunk([source |-> "a.txt", page |-> -1], 3) >>]

InitAnswer ==
    /\ docs_dir = <<>>
    /\ collections = <<"colA", "colB">>
    /\ store = AnswerStore
    /\ last = NoOp
    /\ app \in { [NoSession EXCEPT !.has_uploaded = u] : u \in BOOLEAN }
    /\ run = Idle

NextAnswer ==
    \/ SaveApiKeys
    \/ InitializeSystem
    \/ SubmitQuestion
    \/ GraphInvoke
    \/ analyze_query
    \/ retrieve
    \/ generate

SpecAnswer == InitAnswer /\ [][NextAnswer]_vars

-----------------------------------------------------------------------------
(* sanitize_collection_name(name) (ocr_utils.py 8-12).  A string is the     *)
(* sequence of its characters.                                              *)

NameLimit == 63    \* name[:63]
MaxNameLen == 3    \* freely chosen characters at the end of an input name

Lower == {"a", "b", "c", "d", "e", "f", "g", "h", "i", "j", "k", "l", "m",
          "n", "o", "p", "q", "r", "s", "t", "u", "v", "w", "x", "y", "z"}
Upper == {"A", "B", "C", "D", "E", "F", "G", "H", "I", "J", "K", "L", "M",
          "N", "O", "P", "Q", "R", "S", "T", "U", "V", "W", "X", "Y", "Z"}
Digits == {"0", "1", "2", "3", "4", "5", "6", "7", "8", "9"}

\* The characters the class [a-zA-Z0-9_\-] matches
NameClass == Lower \cup Upper \cup Digits \cup {"_", "-"}

\* Mutant: the slice taken before the substitutions
sanitize_collection_name_cut_first(name) ==
    LET cut == SubSeq(name, 1, Min(Len(name), NameLimit))
        replaced == [i \in 1..Len(cut) |-> IF cut[i] = " " THEN "_" ELSE cut[i]]
    IN  SelectSeq(replaced, LAMBDA ch : ch \in NameClass)

sanitize_collection_name(name) ==
    LET \* name.replace(" ", "_")
        replaced == [i \in 1..Len(name) |-> IF name[i] = " " THEN "_" ELSE name[i]]
        \* re.sub(r'[^a-zA-Z0-9_\-]', '', name): what the class does not match goes
        kept == SelectSeq(replaced, LAMBDA ch : ch \in NameClass)
    IN  \* name[:63]
        SubSeq(kept, 1, Min(Len(kept), NameLimit))

\* The characters input names are made of: allowed ones, the space, other
\* white space and punctuation
NameChars == {"a", "Z", "7", "_", "-", " ", "!", "\t"}

Repeat(ch, n) == [i \in 1..n |-> ch]

\* "My Docs! 2024"
ExampleName == <<"M", "y", " ", "D", "o", "c", "s", "!", " ", "2", "0", "2", "4">>

\* Input names: up to MaxNameLen free characters, alone or after a run of one
\* character that brings the name to the limit or near it, and the example
NameInputs ==
    {ExampleName} \cup
    { Repeat(ch, n) \o tail :
        ch \in {"a", "!"},
        n \in {0} \cup ((NameLimit - MaxNameLen)..NameLimit),
        tail \in BoundedSeqs(NameChars, MaxNameLen) }

\* vector_store.py 208-211: the collection name derived from the directory name
SanitizeName ==
    /\ last.op = "name"
    /\ last' = [op |-> "sanitized", name |-> last.name,
                result |-> sanitize_collection_name(last.name)]
    /\ UNCHANGED <<docs_dir, collections, store, app, run>>

InitSanitize ==
    /\ docs_dir = <<>>
    /\ collections = <<>>
    /\ store = [c \in CollectionNames |-> <<>>]
    /\ last \in { [op |-> "name", name |-> s] : s \in NameInputs }
    /\ app = NoSession
    /\ run = Idle

NextSanitize == SanitizeName

SpecSanitize == InitSanitize /\ [][NextSanitize]_vars

-----------------------------------------------------------------------------
(* Collection synchronization: C1 - C4 *)

\* The chunks the current directory yields (none when loading it raises)
Produced == split_and_prepare_documents(load_documents_from_directory(docs_dir).docs)

FileNamed(n) == CHOOSE f \in Range(Catalogue) : f.name = n

\* The chunks derived from one file
ChunksOf(n) == split_and_prepare_documents(LoadFile(FileNamed(n)).docs)

NoDuplicateHash(chunks) ==
    \A i, j \in 1..Len(chunks) : i # j => chunks[i].content_hash # chunks[j].content_hash

\* This step is a call of initialize_or_update_vector_store on c that returned
SyncReturns(c) == last'.op = "sync" /\ last'.coll = c /\ ~last'.raised

\* ... through update_vectorstore, with the existing hashes read
CleanUpdate(c) == SyncReturns(c) /\ last'.path = "update" /\ ~last'.hashFails

\* C1 as stated: a second run on an unchanged directory and collection adds no chunk,
\* whatever happens in that run (here: every second run that reaches update_vectorstore).
C1_IdempotentAsStated ==
    [][\A c \in CollectionNames :
          (Since(c) = "same" /\ SyncReturns(c) /\ last'.path = "update")
              => store' = store]_vars

\* C1 (amended): after a completed synchronization of collection c from directory D,
\* a second run on the unchanged D and c that finds c listed and reads its existing
\* hashes leaves every collection exactly as it was: zero chunks are added.
C1_Idempotent ==
    [][\A c \in CollectionNames :
          (Since(c) = "same" /\ CleanUpdate(c)) => store' = store]_vars

\* A second run on a non-empty collection has taken place
C1_Witness ==
    /\ last.op = "sync" /\ last.case = "same" /\ last.path = "update"
    /\ ~last.hashFails /\ ~last.raised
    /\ Len(store[last.coll]) >= 2

\* C2 as stated, for the runs in which no store call fails: a synchronization of a
\* collection that holds no two chunks with the same content_hash leaves it so, on
\* first-time creation and on update alike.
C2_UniqueFingerprints ==
    [][\A c \in CollectionNames :
          ( /\ SyncReturns(c)
            /\ ~last'.hashFails
            /\ last'.path = "create" => c \notin Range(collections)
            /\ NoDuplicateHash(Contents(c)) )
              => NoDuplicateHash(store'[c])]_vars

\* C3 as stated, for the runs that read the existing hashes: after one file is added
\* to the synchronized directory, the re-run appends exactly the chunks of that file.
C3_IncrementalAsStated ==
    [][\A c \in CollectionNames :
          (last.op = "added" /\ last.coll = c /\ CleanUpdate(c))
              => store' = [store EXCEPT ![c] = store[c] \o ChunksOf(last.file)]]_vars

\* C3 (amended): if collection c was synchronized from D, one new file is added to D
\* and the re-run finds c listed, reads its existing hashes and returns, then the
\* chunks appended to c are exactly the chunks derived from the new file whose
\* content_hash c did not hold yet, in order; the chunks c held stay where they
\* were, unaltered, and no other collection changes.
C3_Incremental ==
    [][\A c \in CollectionNames :
          (last.op = "added" /\ last.coll = c /\ CleanUpdate(c))
              => store' = [store EXCEPT ![c] = store[c] \o
                              SelectSeq(ChunksOf(last.file),
                                        LAMBDA ch : ch.content_hash \notin Hashes(store[c]))]]_vars

\* A re-run after one file was added has appended chunks to a non-empty collection
C3_Witness ==
    /\ last.op = "sync" /\ last.case = "added" /\ last.path = "update"
    /\ ~last.hashFails /\ ~last.raised
    /\ last.added > 0 /\ Len(store[last.coll]) > last.added

\* C4 as stated: when a synchronization of c returns, the content hashes held by c
\* are exactly those of the chunks the directory yields.
C4_ExactAsStated ==
    (last.op = "sync" /\ ~last.raised) => Hashes(store[last.coll]) = Hashes(Produced)

\* C4 (amended): when a synchronization of c returns, the content hashes held by c
\* are those c held before the call together with those of the chunks the directory
\* yields: none of the directory's is missing, none is new that the directory does
\* not imply, and none that c held is removed.
C4_Exact ==
    [][\A c \in CollectionNames :
          SyncReturns(c) => Hashes(store'[c]) = Hashes(Contents(c)) \cup Hashes(Produced)]_vars

\* A synchronization added chunks to a collection that keeps a hash the directory
\* no longer yields
C4_Witness ==
    /\ last.op = "sync" /\ ~last.raised /\ last.added > 0
    /\ Hashes(store[last.coll]) \ Hashes(Produced) # {}

-----------------------------------------------------------------------------
(* Unified search: C5 - C7 *)

\* Every chunk of every listed collection, as <<collection, position>>
Instances == UNION { { <<c, i>> : i \in 1..Len(store[c]) } : c \in Range(collections) }

Chosen(hits) == { <<hits[i].coll, hits[i].pos>> : i \in 1..Len(hits) }

Searched == last.op = "search" /\ ~last.raised

\* C5: when no collection query errors, unified_search returns min(K, n) distinct
\* chunks of the n chunks held by all collections together, each with its own
\* distance to the query, and no chunk left out is nearer than a chunk returned:
\* the K lowest-score chunks of the union, all of them when n < K.
C5_GlobalTopK ==
    (Searched /\ last.failing = {}) =>
        LET hits == last.hits
        IN  /\ Len(hits) = Min(last.k, Cardinality(Instances))
            /\ Cardinality(Chosen(hits)) = Len(hits)
            /\ Chosen(hits) \subseteq Instances
            /\ \A i \in 1..Len(hits) :
                  /\ hits[i].doc = store[hits[i].coll][hits[i].pos]
                  /\ hits[i].score = last.query[hits[i].doc.text]
            /\ \A x \in Instances \ Chosen(hits) : \A i \in 1..Len(hits) :
                  hits[i].score <= last.query[store[x[1]][x[2]].text]

\* A search over collections holding more than K chunks together that returned
\* chunks of both collections and left a chunk out
C5_Witness ==
    /\ Searched /\ last.failing = {}
    /\ Cardinality(Instances) > last.k
    /\ {last.hits[i].coll : i \in 1..Len(last.hits)} = {"colA", "colB"}

\* The concatenation of the result lists of the collections that answered
RECURSIVE Concatenation(_, _, _, _)
Concatenation(cols, q, k, failing) ==
    IF cols = <<>> THEN <<>>
    ELSE (IF Head(cols) \in failing THEN <<>>
          ELSE similarity_search_with_score(Head(cols), q, k))
            \o Concatenation(Tail(cols), q, k, failing)

\* Where a hit stands in the concatenation (the encounter order)
Encounter(all, h) == CHOOSE j \in 1..Len(all) : all[j].coll = h.coll /\ all[j].pos = h.pos

\* a comes before b in a stable ascending sort by score
Before(all, a, b) ==
    \/ a.score < b.score
    \/ a.score = b.score /\ Encounter(all, a) < Encounter(all, b)

\* C6: unified_search returns the chunks of the first min(K, n) entries of the stable
\* ascending sort by score of the concatenation of the per-collection result lists
\* (n entries): the entries returned are entries of the concatenation, in
\* non-decreasing score order with equal scores in encounter order, every entry
\* left out sorts after every entry returned, and a pool smaller than K is
\* returned whole.
C6_MergeTruncate ==
    Searched =>
        LET all == Concatenation(collections, last.query, last.k, last.failing)
            hits == last.hits
        IN  /\ Len(hits) = Min(last.k, Len(all))
            /\ \A i \in 1..Len(hits) : \E j \in 1..Len(all) : all[j] = hits[i]
            /\ \A i, j \in 1..Len(hits) : i < j => Before(all, hits[i], hits[j])
            /\ \A j \in 1..Len(all) :
                  (\A i \in 1..Len(hits) : hits[i] # all[j])
                      => \A i \in 1..Len(hits) : Before(all, hits[i], all[j])

\* A search whose pool was larger than K and returned two equal-score chunks of
\* different collections
C6_Witness ==
    /\ Searched
    /\ Len(Concatenation(collections, last.query, last.k, last.failing)) > last.k
    /\ \E i, j \in 1..Len(last.hits) :
          /\ i < j
          /\ last.hits[i].score = last.hits[j].score
          /\ last.hits[i].coll # last.hits[j].coll

\* C7: when the queries of some collections raise inside unified_search, the search
\* still returns, every listed collection has been queried (also those after a
\* failing one), and the result is the merged top K of the result lists of exactly
\* the collections that did not error.
C7_FailureIsolation ==
    (last.op = "search" /\ last.failing # {}) =>
        /\ ~last.raised
        /\ last.queried = collections
        /\ last.hits = TopResults(Concatenation(SelectSeq(collections,
                                        LAMBDA c : c \notin last.failing),
                                    last.query, last.k, {}), last.k)

\* The first collection's query raised and the search returned chunks of the second
C7_Witness ==
    /\ Searched
    /\ last.failing = {collections[1]}
    /\ store[collections[1]] # <<>>
    /\ last.hits # <<>>

-----------------------------------------------------------------------------
(* Answer pipeline: C8, C9 *)

StageOrder == <<"analyze_query", "retrieve", "generate">>

Answered == run.pc = "done" /\ run.outcome = "returned" /\ run.value = "answer"

\* C8: every answer invocation that returns an answer has executed analyze_query,
\* then retrieve, then generate, once each, retrieve searching with the query
\* analyze_query produced and generate prompting with the context retrieve produced.
C8_Sequencing ==
    Answered =>
        /\ run.stages = StageOrder
        /\ run.searched = run.query.query
        /\ run.prompted = run.context

\* The same for the invocations of the compiled graph alone
GraphSequencing == (Answered /\ run.entry = "graph") =>
        /\ run.stages = StageOrder
        /\ run.searched = run.query.query
        /\ run.prompted = run.context

\* C9: when a stage of an answer invocation fails, that stage is the last one run,
\* no stage has run twice, and the caller gets the failure as an exception, not as
\* a returned value.
C9_FailurePolicy ==
    (run.pc = "done" /\ run.failed # "none") =>
        /\ run.outcome = "raised"
        /\ run.value = "none"
        /\ run.stages # <<>> /\ run.stages[Len(run.stages)] = run.failed
        /\ Cardinality(Range(run.stages)) = Len(run.stages)

\* The same for the invocations of the compiled graph alone
GraphFailurePolicy == (run.pc = "done" /\ run.entry = "graph" /\ run.failed # "none") =>
        /\ run.outcome = "raised"
        /\ run.value = "none"
        /\ run.stages = SubSeq(StageOrder, 1, Len(run.stages))
        /\ run.stages[Len(run.stages)] = run.failed

-----------------------------------------------------------------------------
(* Loading: C10 *)

\* A file fails to load when reading it raises at some page
FailsToLoad(f) == f.kind \in {"pdf", "txt"} /\ f.failAt > 0

RECURSIVE DocsOfSound(_)
DocsOfSound(files) ==
    IF files = <<>> THEN <<>>
    ELSE (IF FailsToLoad(Head(files)) THEN <<>> ELSE LoadFile(Head(files)).docs)
            \o DocsOfSound(Tail(files))

\* C10: load_documents_from_directory never raises, a file that fails to load
\* contributes no document, and every other file is loaded: the result is the
\* documents of the files that load, in listing order.
C10_ExtractionIsolation ==
    last.op = "load" => (~last.raised /\ last.docs = DocsOfSound(docs_dir))

-----------------------------------------------------------------------------
(* Failures of the store during synchronization: C11, C12, C15, C16 *)

\* The batch write of this step raised: the call raised though loading did not
WriteFailed == last'.op = "sync" /\ last'.raised /\ ~load_documents_from_directory(docs_dir).raised

\* C11: when listing the store's collections fails, or the batch write of the new
\* chunks fails, the call of initialize_or_update_vector_store raises to its caller
\* and has put no chunk into any collection.
C11_FailurePropagation ==
    [][(last'.op = "sync" /\ (last'.listFails \/ WriteFailed))
          => (last'.raised /\ store' = store)]_vars

\* The source directory yields zero documents
EmptySource == load_documents_from_directory(docs_dir) = [docs |-> <<>>, raised |-> FALSE]

\* C12: when the source directory yields zero documents, a call of
\* initialize_or_update_vector_store (the listing of the collections answering)
\* changes nothing in the store, on the update path and on the creation path
\* alike: no chunk is added and no collection is created.
C12_EmptySourceNoOp ==
    [][(last'.op = "sync" /\ ~last'.listFails /\ EmptySource)
          => (store' = store /\ collections' = collections)]_vars

-----------------------------------------------------------------------------
(* Collection names: C13 *)

\* One pass over the name: a space gives an underscore, a letter, digit, underscore
\* or hyphen gives itself, any other character gives nothing
RECURSIVE Cleaned(_)
Cleaned(s) ==
    IF s = <<>> THEN <<>>
    ELSE (CASE Head(s) = " " -> <<"_">>
            [] Head(s) \in NameClass -> <<Head(s)>>
            [] OTHER -> <<>>) \o Cleaned(Tail(s))

\* C13: for every input name, sanitize_collection_name returns a string of letters,
\* digits, underscores and hyphens only, of length at most 63, that is the name with
\* each space replaced by an underscore and every other disallowed character
\* removed, cut to its first 63 characters; "My Docs! 2024" gives "My_Docs_2024".
C13_Sanitization ==
    last.op = "sanitized" =>
        /\ \A i \in 1..Len(last.result) :
              last.result[i] \in Lower \cup Upper \cup Digits \cup {"_", "-"}
        /\ Len(last.result) <= 63
        /\ LET whole == Cleaned(last.name)
           IN  last.result = [i \in 1..Min(63, Len(whole)) |-> whole[i]]
        /\ last.name = ExampleName =>
              last.result = <<"M", "y", "_", "D", "o", "c", "s", "_", "2", "0", "2", "4">>

\* A name longer than the limit, with a space and a character to remove among its
\* first 63, was sanitized to a name of exactly 63 characters
C13_Witness ==
    /\ last.op = "sanitized"
    /\ Len(last.name) > NameLimit
    /\ \E i, j \in 1..NameLimit : last.name[i] = " " /\ last.name[j] = "!"
    /\ Len(last.result) = NameLimit

-----------------------------------------------------------------------------
(* Loading: C14 *)

\* The file names in lexical order
LexicalOrder == <<"a.txt", "b.pdf", "c.pdf", "e.txt", "f.md", "sub/d.txt">>

\* The PDF and plain-text files directly in the directory, sorted by name
SortedTopLevel(files) ==
    LET names == SelectSeq(LexicalOrder, LAMBDA n :
                    \E i \in 1..Len(files) :
                        /\ files[i].name = n
                        /\ ~InSubdir(files[i])
                        /\ files[i].kind \in {"pdf", "txt"})
    IN  [k \in 1..Len(names) |-> CHOOSE f \in Range(files) : f.name = names[k]]

\* C14: a load that returns has read only the PDF and plain-text files directly in
\* the source directory, in lexically sorted order of file name: its documents are
\* those of these files, in that order, whatever order the file system lists them in.
C14_SelectionAndOrder ==
    (last.op = "load" /\ ~last.raised) =>
        last.docs = load_documents_from_directory(SortedTopLevel(docs_dir)).docs

-----------------------------------------------------------------------------
(* Hash lookup: C15 *)

\* C15: when reading the existing hashes of the target collection fails, the lookup
\* yields the empty set and does not end the call: update_vectorstore goes on, and
\* when it returns it has appended every chunk the source directory yields, those
\* the collection already held included.
C15_HashLookupDegradation ==
    [][\A c \in CollectionNames :
          (SyncReturns(c) /\ last'.hashFails)
              => /\ last'.path = "update"
                 /\ store' = [store EXCEPT ![c] = store[c] \o Produced]
                 /\ last'.added = Len(Produced)]_vars

\* A synchronization whose lookup failed has returned and left two chunks with the
\* same content hash in the collection
C15_Witness ==
    /\ last.op = "sync" /\ last.hashFails /\ ~last.raised
    /\ last.added > 0
    /\ ~NoDuplicateHash(store[last.coll])

-----------------------------------------------------------------------------
(* Frame of synchronization: C16 *)

IsPrefix(s, t) == Len(s) <= Len(t) /\ SubSeq(t, 1, Len(s)) = s

\* C16: a call of initialize_or_update_vector_store on collection c leaves the
\* contents of every other collection as they were and keeps every chunk c held,
\* unaltered and in place (it only appends); no collection disappears from the
\* listing; so over any sequence of synchronizations the set of content hashes of
\* each collection only grows.
C16_Frame ==
    [][\A c \in CollectionNames :
          (last'.op = "sync" /\ last'.coll = c)
              => /\ \A d \in CollectionNames \ {c} : store'[d] = store[d]
                 /\ IsPrefix(store[c], store'[c])
                 /\ Hashes(store[c]) \subseteq Hashes(store'[c])
                 /\ Range(collections) \subseteq Range(collections')]_vars

\* A synchronization appended chunks to a collection that held some, while the other
\* collection held chunks too
C16_Witness ==
    /\ last.op = "sync" /\ ~last.raised
    /\ last.added > 0 /\ Len(store[last.coll]) > last.added
    /\ \E d \in CollectionNames \ {last.coll} : store[d] # <<>>

====
